---- MODULE Spec2Model ----
(***************************************************************************)
(* A model of src/CSVToLatex.py: the CSVToLaTeX object (its fields), its   *)
(* setters and tolatex.  One action per method; the text tolatex writes is *)
(* the sequence of its ofile.write calls, built as real strings.           *)
(*                                                                         *)
(* Python values are tagged, because the code branches on their type:      *)
(*   None                      [tag |-> "None"]                            *)
(*   a str                     [tag |-> "str",  val |-> <<characters>>]    *)
(*   a list                    [tag |-> "list", elt |-> "int" or "str",    *)
(*                              val |-> <<elements>>]                      *)
(*   a function (a formatter)  [tag |-> "callable", val |-> its name]      *)
(* self.keys is a function whose domain is the set of keys present.        *)
(***************************************************************************)
EXTENDS Integers, Sequences, FiniteSets, TLC

VARIABLES
    ncols,            \* self.ncols
    headers,          \* self.headers: None or a list of strings
    include_headers,  \* self.include_headers
    columns,          \* self.columns: None, a str or a list of strings
    keys,             \* self.keys: the dict holding "bold", "clines", "rlines"
    formatters,       \* self.formatters: one formatter name per column
    call,             \* the most recent call: its method, arguments and exception
    written,          \* what that call wrote to its output file, one entry per write
    consumed,         \* how many rows that call pulled from self.reader
    calls             \* number of calls made (only counted under a call budget)

vars == <<ncols, headers, include_headers, columns, keys, formatters,
          call, written, consumed, calls>>

model == <<ncols, headers, include_headers, columns, keys, formatters>>

-----------------------------------------------------------------------------
(* Bounds of the exploration *)

MaxCols == 2
MaxRows == 2
MaxCalls == 2
MaxHeaderCalls == 3

-----------------------------------------------------------------------------
(* Python values *)

None == [tag |-> "None"]
PyStr(cs) == [tag |-> "str", val |-> cs]
PyList(e, xs) == [tag |-> "list", elt |-> e, val |-> xs]
PyFun(f) == [tag |-> "callable", val |-> f]

StrAll == PyStr(<<"a", "l", "l">>)
StrNone == PyStr(<<"n", "o", "n", "e">>)
StrOther == PyStr(<<"t", "o", "p">>)

\* seq[i] for a Python index i (0-based, negative counts from the end)
PyInRange(len, i) == -len <= i /\ i < len
PyPos(len, i) == IF i < 0 THEN len + i + 1 ELSE i + 1

\* d[k] = v on a dict
DictSet(d, k, v) == [x \in (DOMAIN d) \cup {k} |-> IF x = k THEN v ELSE d[x]]
EmptyDict == [x \in {} |-> None]

RECURSIVE JoinChars(_)
JoinChars(cs) == IF cs = <<>> THEN "" ELSE Head(cs) \o JoinChars(Tail(cs))

\* " & ".join(cells)
RECURSIVE JoinAmp(_)
JoinAmp(cells) ==
    IF cells = <<>> THEN ""
    ELSE IF Len(cells) = 1 THEN cells[1]
    ELSE cells[1] \o " & " \o JoinAmp(Tail(cells))

SeqsUpTo(S, n) == UNION {[1..k -> S] : k \in 0..n}

-----------------------------------------------------------------------------
(* Construction *)

HeaderNames == <<"A", "B", "C", "D", "E">>
Digits == <<"1", "2", "3", "4", "5">>

\* the first header cell as read from the file, character by character
FirstCells == {<<"A">>, <<"#", "A">>}

\* try: if(self.headers[0][0]=="#"): self.headers[0] = self.headers[0][1:]
\* except: pass
StripComment(cs) == IF Len(cs) > 0 /\ cs[1] = "#" THEN Tail(cs) ELSE cs

FileHeaders(first, n) ==
    [i \in 1..n |-> IF i = 1 THEN JoinChars(StripComment(first)) ELSE HeaderNames[i]]

Init ==
    /\ ncols \in 1..MaxCols
    /\ \E header \in BOOLEAN, first \in FirstCells :
          /\ headers = IF header THEN PyList("str", FileHeaders(first, ncols)) ELSE None
          /\ include_headers = header
    /\ columns = None
    /\ keys = EmptyDict
    /\ formatters = [i \in 1..ncols |-> "str"]
    /\ call = [op |-> "__init__", args |-> <<>>, raised |-> "None"]
    /\ written = <<>>
    /\ consumed = 0
    /\ calls = 0

Returned(op, args, exc) ==
    /\ call' = [op |-> op, args |-> args, raised |-> exc]
    /\ written' = <<>>
    /\ consumed' = 0

-----------------------------------------------------------------------------
(* set_headers *)

HeaderArgs(n) == SeqsUpTo({"A", "B"}, n + 1)

\* a slip in the length check: shorter header lists pass
headers_accepted_when_shorter(h, n) == Len(h) <= n

headers_accepted(h, n) == Len(h) = n

set_headers ==
    \E h \in HeaderArgs(ncols), bold \in BOOLEAN :
        /\ IF headers_accepted(h, ncols)
           THEN /\ headers' = PyList("str", h)
                /\ include_headers' = TRUE
                /\ keys' = DictSet(keys, "bold", bold)
                /\ Returned("set_headers", [headers |-> h, bold |-> bold], "None")
           ELSE /\ UNCHANGED <<headers, include_headers, keys>>
                /\ Returned("set_headers", [headers |-> h, bold |-> bold], "ValueError")
        /\ UNCHANGED <<ncols, columns, formatters>>

-----------------------------------------------------------------------------
(* set_columns *)

ColChars == <<"l", "c", "r", "l", "c", "r", "l", "c">>
LiteralSpec == <<"|", "l", "|", "r", "|", "c", "|">>
AlignCycle == <<"left", "center", "right", "p">>

\* a literal str one shorter than, as long as and one longer than ncols, a
\* realistic literal column-spec, four lists of n alignment tokens (each token
\* at each position), and a list one shorter and one longer than ncols
ColumnArgs(n) ==
    {PyStr(SubSeq(ColChars, 1, k)) : k \in (n - 1)..(n + 1)}
    \cup {PyStr(LiteralSpec)}
    \cup {PyList("str", [i \in 1..n |-> AlignCycle[((i + s) % 4) + 1]]) : s \in 0..3}
    \cup {PyList("str", [i \in 1..k |-> "left"]) : k \in {n - 1, n + 1}}

\* lines 115-122: 'center', 'left' and 'right' become 'c', 'l' and 'r'
NormaliseColumn(t) ==
    IF t = "center" THEN "c"
    ELSE IF t = "left" THEN "l"
    ELSE IF t = "right" THEN "r"
    ELSE t

\* lines 109-110: a str is stored at once; there is no return after it
columns_after_str_check(cols, c) == IF c.tag = "str" THEN c ELSE cols

set_columns ==
    \E c \in ColumnArgs(ncols) :
        /\ IF Len(c.val) # ncols
           THEN /\ columns' = columns_after_str_check(columns, c)
                /\ Returned("set_columns", [columns |-> c], "ValueError")
           ELSE /\ columns' = PyList("str", [i \in 1..Len(c.val) |-> NormaliseColumn(c.val[i])])
                /\ Returned("set_columns", [columns |-> c], "None")
        /\ UNCHANGED <<ncols, headers, include_headers, keys, formatters>>

-----------------------------------------------------------------------------
(* set_column_lines, set_column_line *)

\* "all", "none" and another str; the empty list, index lists of one entry in and
\* out of range and of two entries; explicit token lists one shorter than, as
\* long as and one longer than ncols+1
LinesArgs(kind, n) ==
    CASE kind = "str" -> {StrAll, StrNone, StrOther}
      [] kind = "int" -> {PyList("int", <<>>)}
                         \cup {PyList("int", <<i>>) : i \in (-(n + 2))..(n + 1)}
                         \cup {PyList("int", <<i, -1>>) : i \in 0..(n + 1)}
                         \cup {PyList("int", <<0, j>>) : j \in 1..n}
      [] kind = "tok" -> {PyList("str", [i \in 1..k |-> "||"]) : k \in n..(n + 2)}

\* lines 142-144: l = [""]*(ncols+1); for i in lines: l[i] = "|"
MarkLines(n, idxs) ==
    [p \in 1..(n + 1) |->
        IF \E j \in 1..Len(idxs) : PyPos(n + 1, idxs[j]) = p THEN "|" ELSE ""]

\* the body of set_column_lines: the exception it ends with and self.keys after it
SetColumnLines(ks, lines, n) ==
    IF lines.tag = "str"
    THEN IF lines = StrAll
         THEN [raised |-> "None", keys |-> DictSet(ks, "clines", [p \in 1..(n + 1) |-> "|"])]
         ELSE IF lines = StrNone
         THEN [raised |-> "None", keys |-> DictSet(ks, "clines", [p \in 1..(n + 1) |-> ""])]
         ELSE [raised |-> "None", keys |-> ks]
    ELSE IF Len(lines.val) = 0
    THEN [raised |-> "IndexError", keys |-> ks]      \* lines[0] of an empty list
    ELSE IF lines.elt = "int"
    THEN IF \A j \in 1..Len(lines.val) : PyInRange(n + 1, lines.val[j])
         THEN [raised |-> "None", keys |-> DictSet(ks, "clines", MarkLines(n, lines.val))]
         ELSE [raised |-> "IndexError", keys |-> ks]  \* l is a local: nothing stored
    ELSE [raised |-> "None", keys |-> DictSet(ks, "clines", lines.val)]

set_column_lines ==
    \E kind \in {"str", "int", "tok"} : \E lines \in LinesArgs(kind, ncols) :
        LET r == SetColumnLines(keys, lines, ncols) IN
        /\ keys' = r.keys
        /\ Returned("set_column_lines", [lines |-> lines], r.raised)
        /\ UNCHANGED <<ncols, headers, include_headers, columns, formatters>>

\* lines 165-166: if("clines" not in self.keys): self.set_column_lines("none")
keys_with_clines(ks, n) ==
    IF "clines" \notin DOMAIN ks THEN SetColumnLines(ks, StrNone, n).keys ELSE ks

\* line 167: self.keys["clines"][idx] = line
index_assignable(len, idx) == PyInRange(len, idx)

set_column_line ==
    \E idx \in (-(ncols + 2))..(ncols + 1), line \in {"||"} :
        LET ks == keys_with_clines(keys, ncols)
            cl == ks.clines
        IN
        /\ IF index_assignable(Len(cl), idx)
           THEN /\ keys' = DictSet(ks, "clines", [cl EXCEPT ![PyPos(Len(cl), idx)] = line])
                /\ Returned("set_column_line", [idx |-> idx, line |-> line], "None")
           ELSE /\ keys' = ks
                /\ Returned("set_column_line", [idx |-> idx, line |-> line], "IndexError")
        /\ UNCHANGED <<ncols, headers, include_headers, columns, formatters>>

-----------------------------------------------------------------------------
(* set_row_lines *)

\* the row numbers of S in ascending order
RECURSIVE Ascending(_)
Ascending(S) ==
    IF S = {} THEN <<>>
    ELSE LET m == CHOOSE x \in S : \A y \in S : x <= y
         IN <<m>> \o Ascending(S \ {m})

Reversed(xs) == [i \in 1..Len(xs) |-> xs[Len(xs) + 1 - i]]

\* "all", "none" and another str; every set of row numbers in ascending order,
\* alone, followed by -1 and preceded by -1; and in descending order
RowLinesArgs(kind) ==
    CASE kind = "str" -> {StrAll, StrNone, StrOther}
      [] kind = "int" ->
            LET asc == {Ascending(S) : S \in SUBSET (0..(MaxRows - 1))} IN
            {PyList("int", xs) : xs \in asc}
            \cup {PyList("int", xs \o <<-1>>) : xs \in asc}
            \cup {PyList("int", <<-1>> \o xs) : xs \in asc}
            \cup {PyList("int", Reversed(xs)) : xs \in asc}

set_row_lines ==
    \E kind \in {"str", "int"} : \E lines \in RowLinesArgs(kind) :
        /\ keys' = DictSet(keys, "rlines", lines)
        /\ Returned("set_row_lines", [lines |-> lines], "None")
        /\ UNCHANGED <<ncols, headers, include_headers, columns, formatters>>

-----------------------------------------------------------------------------
(* set_formatters, set_formatter *)

\* "str" is the default formatter; "fixed2" is the docstrings' example
\* lambda s: "{:.2f}".format(float(s)), which raises ValueError on a non-number
Formatters == {"str", "fixed2"}

\* a single formatter; every list of n formatters and a list of every other
\* length 0..n+1
FormattersArgs(n) ==
    {PyFun(f) : f \in Formatters}
    \cup {PyList("callable", fs) : fs \in [1..n -> Formatters]}
    \cup {PyList("callable", [i \in 1..k |-> "str"]) : k \in (0..(n + 1)) \ {n}}

set_formatters ==
    \E fs \in FormattersArgs(ncols) :
        /\ IF fs.tag = "list"
           THEN IF Len(fs.val) = ncols
                THEN /\ formatters' = fs.val
                     /\ Returned("set_formatters", [formatters |-> fs], "None")
                ELSE /\ UNCHANGED formatters
                     /\ Returned("set_formatters", [formatters |-> fs], "ValueError")
           ELSE /\ formatters' = [i \in 1..ncols |-> fs.val]
                /\ Returned("set_formatters", [formatters |-> fs], "None")
        /\ UNCHANGED <<ncols, headers, include_headers, columns, keys>>

set_formatter ==
    \E idx \in (-(ncols + 1))..ncols, f \in Formatters :
        /\ IF PyInRange(Len(formatters), idx)
           THEN /\ formatters' = [formatters EXCEPT ![PyPos(Len(formatters), idx)] = f]
                /\ Returned("set_formatter", [idx |-> idx, formatter |-> f], "None")
           ELSE /\ UNCHANGED formatters
                /\ Returned("set_formatter", [idx |-> idx, formatter |-> f], "IndexError")
        /\ UNCHANGED <<ncols, headers, include_headers, columns, keys>>

-----------------------------------------------------------------------------
(* tolatex *)

\* the rows self.reader yields during a call: each row has ncols cells, either
\* the digits 1..ncols or an "x" in every column
DigitRow(n) == [i \in 1..n |-> Digits[i]]
XRow(n) == [i \in 1..n |-> "x"]
RowSources(n) == SeqsUpTo({DigitRow(n), XRow(n)}, MaxRows)

\* line 256: rlines = [100000000]
NoneSentinel == 100000000
\* line 260: rlines = [10000000000]; the model checker's integers are 32 bits
\* wide, and the value is only ever compared with rownr and with -1
UnsetSentinel == 2147483647

Hline == "\\hline\n"
Endline == "\\\\" \o "\n"
BeginLine(colstr) == "\\begin{tabular}{" \o colstr \o "}" \o "\n"
EndTabular == "\\end{tabular}"

\* lines 235-236: the default alignment is stored in self.columns
columns_defaulted(cols, n) ==
    IF cols = None THEN PyList("str", [i \in 1..n |-> "c"]) ELSE cols

\* lines 246-248: colstr = lines[0]; for i in range(ncols): colstr += columns[i]+lines[i+1]
RECURSIVE ComposeColstr(_, _, _)
ComposeColstr(lines, cols, i) ==
    IF i = 0 THEN lines[1]
    ELSE ComposeColstr(lines, cols, i - 1) \o cols[i] \o lines[i + 1]

\* a slip in the loop: the separator after the last column is left out
colstr_of_without_last_separator(cols, ks, n) ==
    IF cols.tag = "str"
    THEN [raised |-> "None", val |-> JoinChars(cols.val)]
    ELSE LET lines == IF "clines" \in DOMAIN ks THEN ks.clines
                      ELSE [p \in 1..(n + 1) |-> ""]
         IN IF Len(lines) = 0 \/ \E i \in 0..(n - 1) : ~PyInRange(Len(lines), i + 1)
            THEN [raised |-> "IndexError", val |-> ""]
            ELSE [raised |-> "None",
                  val |-> ComposeColstr(lines, cols.val, n - 1) \o cols.val[n]]

\* lines 238-248: the column-spec, or the IndexError of lines[0] or lines[i+1]
colstr_of(cols, ks, n) ==
    IF cols.tag = "str"
    THEN [raised |-> "None", val |-> JoinChars(cols.val)]
    ELSE LET lines == IF "clines" \in DOMAIN ks THEN ks.clines
                      ELSE [p \in 1..(n + 1) |-> ""]
         IN IF Len(lines) = 0 \/ \E i \in 0..(n - 1) : ~PyInRange(Len(lines), i + 1)
            THEN [raised |-> "IndexError", val |-> ""]
            ELSE [raised |-> "None", val |-> ComposeColstr(lines, cols.val, n)]

\* lines 251-260: all_lines and rlines
row_lines_of(ks) ==
    IF "rlines" \in DOMAIN ks
    THEN IF ks.rlines.tag = "str"
         THEN IF ks.rlines = StrAll THEN [all_lines |-> TRUE, rlines |-> <<>>]
              ELSE IF ks.rlines = StrNone
              THEN [all_lines |-> FALSE, rlines |-> <<NoneSentinel>>]
              ELSE [all_lines |-> FALSE, rlines |-> <<>>]
         ELSE [all_lines |-> FALSE, rlines |-> ks.rlines.val]
    ELSE [all_lines |-> FALSE, rlines |-> <<UnsetSentinel>>]

\* lines 264-265: self.headers = [r"\textbf{"+s+"}" for s in self.headers]
headers_rendered(hs, ks) ==
    IF "bold" \in DOMAIN ks /\ ks.bold
    THEN PyList("str", [i \in 1..Len(hs.val) |-> "\\textbf{" \o hs.val[i] \o "}"])
    ELSE hs

\* lines 263-269: the writes of the header block
header_writes(inc, hs) ==
    IF inc THEN <<Hline, JoinAmp(hs.val) \o Endline, Hline>> ELSE <<>>

\* one formatter applied to one cell
ApplyFormatter(f, cell) ==
    IF f = "str" THEN [raised |-> "None", val |-> cell]
    ELSE IF cell = "x" THEN [raised |-> "ValueError", val |-> ""]
    ELSE [raised |-> "None", val |-> cell \o ".00"]

\* a slip in the row loop: a formatter's exception is caught and the cell left empty
format_row_swallowing_errors(fs, row, n) ==
    [raised |-> "None", val |-> [i \in 1..n |-> ApplyFormatter(fs[i], row[i]).val]]

\* line 273: [self.formatters[i](row[i]) for i in range(self.ncols)]
format_row(fs, row, n) ==
    LET cells == [i \in 1..n |-> ApplyFormatter(fs[i], row[i])] IN
    IF \E i \in 1..n : cells[i].raised # "None"
    THEN [raised |-> "ValueError", val |-> <<>>]
    ELSE [raised |-> "None", val |-> [i \in 1..n |-> cells[i].val]]

\* a slip in the cursor: idx is not advanced after a match
row_separator_without_advance(all_lines, rlines, idx, rownr) ==
    IF all_lines THEN [hline |-> TRUE, idx |-> idx]
    ELSE IF idx < Len(rlines) /\ rownr = rlines[idx + 1]
    THEN [hline |-> TRUE, idx |-> idx]
    ELSE [hline |-> FALSE, idx |-> idx]

\* lines 275-279: whether a \hline follows row rownr, and idx after it
row_separator(all_lines, rlines, idx, rownr) ==
    IF all_lines THEN [hline |-> TRUE, idx |-> idx]
    ELSE IF idx < Len(rlines) /\ rownr = rlines[idx + 1]
    THEN [hline |-> TRUE, idx |-> idx + 1]
    ELSE [hline |-> FALSE, idx |-> idx]

\* lines 271-280: the loop over self.reader, from row number rownr on
RECURSIVE render_rows(_, _, _, _, _, _)
render_rows(rows, fs, n, rl, idx, rownr) ==
    IF rownr >= Len(rows)
    THEN [raised |-> "None", writes |-> <<>>, consumed |-> Len(rows)]
    ELSE LET line == format_row(fs, rows[rownr + 1], n) IN
         IF line.raised # "None"
         THEN [raised |-> line.raised, writes |-> <<>>, consumed |-> rownr + 1]
         ELSE LET sep == row_separator(rl.all_lines, rl.rlines, idx, rownr)
                  rest == render_rows(rows, fs, n, rl, sep.idx, rownr + 1)
              IN [raised |-> rest.raised,
                  writes |-> <<JoinAmp(line.val) \o Endline>>
                             \o (IF sep.hline THEN <<Hline>> ELSE <<>>)
                             \o rest.writes,
                  consumed |-> rest.consumed]

\* lines 281-284: the closing \hline and \end{tabular}, or the IndexError of rlines[-1]
closing_writes(rlines) ==
    IF Len(rlines) = 0 THEN [raised |-> "IndexError", writes |-> <<>>]
    ELSE IF rlines[Len(rlines)] = -1
    THEN [raised |-> "None", writes |-> <<Hline, EndTabular>>]
    ELSE [raised |-> "None", writes |-> <<EndTabular>>]

tolatex ==
    \E rows \in RowSources(ncols) :
        LET cols == columns_defaulted(columns, ncols)
            cs == colstr_of(cols, keys, ncols)
            rl == row_lines_of(keys)
            hs == IF include_headers THEN headers_rendered(headers, keys) ELSE headers
            body == render_rows(rows, formatters, ncols, rl, 0, 0)
            tail == closing_writes(rl.rlines)
            args == [rows |-> rows]
        IN
        /\ columns' = cols
        /\ IF cs.raised # "None"
           THEN /\ call' = [op |-> "tolatex", args |-> args, raised |-> cs.raised]
                /\ written' = <<>>
                /\ consumed' = 0
                /\ UNCHANGED headers
           ELSE /\ headers' = hs
                /\ consumed' = body.consumed
                /\ IF body.raised # "None"
                   THEN /\ call' = [op |-> "tolatex", args |-> args, raised |-> body.raised]
                        /\ written' = <<BeginLine(cs.val)>> \o header_writes(include_headers, hs)
                                      \o body.writes
                   ELSE /\ call' = [op |-> "tolatex", args |-> args, raised |-> tail.raised]
                        /\ written' = <<BeginLine(cs.val)>> \o header_writes(include_headers, hs)
                                      \o body.writes \o tail.writes
        /\ UNCHANGED <<ncols, include_headers, keys, formatters>>

-----------------------------------------------------------------------------
(* Specifications *)

Unbudgeted == UNCHANGED calls
Budgeted(max) == calls < max /\ calls' = calls + 1

\* column layout: alignment, vertical separators, rendering
NextLayout ==
    \/ set_columns /\ Unbudgeted
    \/ set_column_lines /\ Unbudgeted
    \/ set_column_line /\ Unbudgeted
    \/ tolatex /\ Unbudgeted

\* rows: horizontal separators, formatters, rendering
NextRows ==
    \/ set_row_lines /\ Unbudgeted
    \/ set_formatters /\ Unbudgeted
    \/ set_formatter /\ Unbudgeted
    \/ tolatex /\ Unbudgeted

\* headers: every sequence of at most MaxHeaderCalls calls of set_headers and tolatex
NextHeaders ==
    \/ set_headers /\ Budgeted(MaxHeaderCalls)
    \/ tolatex /\ Budgeted(MaxHeaderCalls)

\* every sequence of at most MaxCalls calls of any method
Next ==
    \/ set_headers /\ Budgeted(MaxCalls)
    \/ set_columns /\ Budgeted(MaxCalls)
    \/ set_column_lines /\ Budgeted(MaxCalls)
    \/ set_column_line /\ Budgeted(MaxCalls)
    \/ set_row_lines /\ Budgeted(MaxCalls)
    \/ set_formatters /\ Budgeted(MaxCalls)
    \/ set_formatter /\ Budgeted(MaxCalls)
    \/ tolatex /\ Budgeted(MaxCalls)

Spec == Init /\ [][Next]_vars
SpecLayout == Init /\ [][NextLayout]_vars
SpecRows == Init /\ [][NextRows]_vars
SpecHeaders == Init /\ [][NextHeaders]_vars

-----------------------------------------------------------------------------
(* Properties *)

Setters == {"set_headers", "set_columns", "set_column_lines", "set_column_line",
            "set_row_lines", "set_formatters", "set_formatter"}

HeaderLineCount == IF include_headers THEN 3 ELSE 0

\* the first row (1-based) of rows on which some column's formatter raises, 0 if none
FirstRaisingRow(rows) ==
    LET bad == {k \in 1..Len(rows) :
                   \E i \in 1..ncols : formatters[i] = "fixed2" /\ rows[k][i] = "x"}
    IN IF bad = {} THEN 0 ELSE CHOOSE k \in bad : \A j \in bad : k <= j

\* an index list of the shape C9 names: entries >= -1, the non-negative ones
\* strictly ascending, and -1 only as the last element
WellFormedRowList(xs) ==
    /\ \A i \in 1..Len(xs) : xs[i] >= -1 /\ (xs[i] = -1 => i = Len(xs))
    /\ \A i, j \in 1..Len(xs) : (i < j /\ xs[i] >= 0 /\ xs[j] >= 0) => xs[i] < xs[j]

\* C1: for every valid configuration (horizontal separators unset, "all", "none"
\* or a well-formed non-empty index list; formatters that do not raise on the
\* rows; default or per-column alignment, here without vertical separators),
\* tolatex ends without an exception and its text starts with the
\* \begin{tabular}{<colspec>} line and ends with \end{tabular}.
C1_RendersEveryValidConfiguration ==
    ( /\ call.op = "tolatex"
      /\ columns.tag = "list"
      /\ "clines" \notin DOMAIN keys
      /\ FirstRaisingRow(call.args.rows) = 0
      /\ \/ "rlines" \notin DOMAIN keys
         \/ keys.rlines = StrAll
         \/ keys.rlines = StrNone
         \/ /\ keys.rlines.tag = "list"
            /\ keys.rlines.val # <<>>
            /\ WellFormedRowList(keys.rlines.val) )
    => /\ call.raised = "None"
       /\ Len(written) >= 2
       /\ written[1] = BeginLine(JoinChars(columns.val))
       /\ written[Len(written)] = EndTabular

\* C2: set_columns with a literal str of any length succeeds and stores it; the
\* vertical-separator setters leave it alone; tolatex uses it verbatim as the
\* column-spec.
C2_LiteralColumnSpecVerbatim ==
    [][ /\ (call'.op = "set_columns" /\ call'.args.columns.tag = "str")
            => (call'.raised = "None" /\ columns' = call'.args.columns)
        /\ (call'.op \in {"set_column_lines", "set_column_line"} /\ columns.tag = "str")
            => columns' = columns
        /\ (call'.op = "tolatex" /\ columns.tag = "str")
            => /\ Len(written') >= 1
               /\ written'[1] = BeginLine(JoinChars(columns.val)) ]_vars

\* the alignment a stored value of self.columns stands for
EffectiveAlignment(cols) ==
    IF cols = None THEN [i \in 1..ncols |-> "c"] ELSE cols.val

\* C3: tolatex leaves headers, the header flag, the bold flag, the separators,
\* the formatters and the alignment as they were, and two successive tolatex
\* calls fed the same rows write the same text.
C3_RenderingIsIdempotent ==
    [][ call'.op = "tolatex" =>
          /\ headers' = headers
          /\ include_headers' = include_headers
          /\ keys' = keys
          /\ formatters' = formatters
          /\ EffectiveAlignment(columns') = EffectiveAlignment(columns)
          /\ (call.op = "tolatex" /\ call.args.rows = call'.args.rows)
                => written' = written ]_vars

\* C4: a configured vertical-separator list always has ncols+1 entries; an
\* explicit token list of another length is rejected by set_column_lines; and
\* tolatex never fails on the separators (it always writes its first line).
C4_SeparatorListLength ==
    /\ "clines" \in DOMAIN keys => Len(keys.clines) = ncols + 1
    /\ ( /\ call.op = "set_column_lines"
         /\ call.args.lines.tag = "list"
         /\ call.args.lines.elt = "str"
         /\ Len(call.args.lines.val) # ncols + 1 ) => call.raised # "None"
    /\ call.op = "tolatex" => Len(written) >= 1

\* 'center', 'left' and 'right' stand for 'c', 'l' and 'r'; any other token for itself
ExpectedToken(t) ==
    CASE t = "left" -> "l" [] t = "center" -> "c" [] t = "right" -> "r" [] OTHER -> t

\* sep[0]+a[0]+sep[1]+a[1]+...+a[n-1]+sep[n]: 2n+1 tokens, the separators at the
\* odd places and the alignments at the even ones
Interleaved(sep, a) ==
    JoinChars([k \in 1..(2 * ncols + 1) |->
                  IF k % 2 = 1 THEN sep[(k + 1) \div 2] ELSE a[k \div 2]])

NoSeparators == [p \in 1..(ncols + 1) |-> ""]
ConfiguredSeparators(ks) == IF "clines" \in DOMAIN ks THEN ks.clines ELSE NoSeparators

\* C5: a per-column alignment list of length ncols is stored normalised; "all"
\* puts "|" at each of the ncols+1 separator positions, "none" the empty token,
\* an index list with entries in -1..ncols "|" at exactly the listed positions
\* (-1 being position ncols); set_column_line keeps the ncols+1 positions; and
\* with such separators, or none configured, tolatex writes the column-spec
\* sep[0]+a[0]+sep[1]+...+a[n-1]+sep[n].
C5_ColumnSpecComposition ==
    [][ /\ ( /\ call'.op = "set_columns"
             /\ call'.args.columns.tag = "list"
             /\ Len(call'.args.columns.val) = ncols )
           => /\ call'.raised = "None"
              /\ columns' = PyList("str", [i \in 1..ncols |->
                                ExpectedToken(call'.args.columns.val[i])])
        /\ (call'.op = "set_column_lines" /\ call'.args.lines = StrAll)
           => /\ call'.raised = "None"
              /\ keys'.clines = [p \in 1..(ncols + 1) |-> "|"]
        /\ (call'.op = "set_column_lines" /\ call'.args.lines = StrNone)
           => /\ call'.raised = "None"
              /\ keys'.clines = NoSeparators
        /\ ( /\ call'.op = "set_column_lines"
             /\ call'.args.lines.tag = "list"
             /\ call'.args.lines.val # <<>>
             /\ call'.args.lines.elt = "int"
             /\ \A j \in 1..Len(call'.args.lines.val) :
                    call'.args.lines.val[j] \in (-1)..ncols )
           => /\ call'.raised = "None"
              /\ keys'.clines =
                   [p \in 1..(ncols + 1) |->
                      IF \E j \in 1..Len(call'.args.lines.val) :
                            \/ call'.args.lines.val[j] = p - 1
                            \/ (call'.args.lines.val[j] = -1 /\ p = ncols + 1)
                      THEN "|" ELSE ""]
        /\ ( /\ call'.op = "set_column_line"
             /\ call'.args.idx \in (-1)..ncols
             /\ Len(ConfiguredSeparators(keys)) = ncols + 1 )
           => /\ call'.raised = "None"
              /\ Len(keys'.clines) = ncols + 1
        /\ ( /\ call'.op = "tolatex"
             /\ columns.tag # "str"
             /\ Len(ConfiguredSeparators(keys)) = ncols + 1 )
           => /\ call'.raised = "None"
              /\ written'[1] = BeginLine(Interleaved(ConfiguredSeparators(keys),
                                                     EffectiveAlignment(columns)))
      ]_vars

\* C5's case: two columns aligned left and center, a single line at the left
\* edge (index list [0]), a double line between the columns (set_column_line)
C5_Witness ==
    /\ call.op = "tolatex"
    /\ call.raised = "None"
    /\ ncols = 2
    /\ columns = PyList("str", <<"l", "c">>)
    /\ "clines" \in DOMAIN keys
    /\ keys.clines = <<"|", "||", "">>
    /\ written[1] = "\\begin{tabular}{|l||c}\n"

\* C6: set_column_line(idx, token), with idx in 0..ncols, -1 or ncols+1, succeeds
\* and sets exactly the separator at position idx (-1 and ncols+1 being the
\* rightmost edge), the other positions staying as they were (all empty when no
\* separators were configured).
C6_SetColumnLineAddressesEdges ==
    [][ ( /\ call'.op = "set_column_line"
          /\ call'.args.idx \in (-1)..(ncols + 1)
          /\ Len(ConfiguredSeparators(keys)) = ncols + 1 )
        => /\ call'.raised = "None"
           /\ keys'.clines =
                [ConfiguredSeparators(keys) EXCEPT
                    ![IF call'.args.idx \in {-1, ncols + 1} THEN ncols + 1
                      ELSE call'.args.idx + 1] = call'.args.line]
      ]_vars

\* a row as the formatters of the columns render it
ExpectedRowLine(row) ==
    JoinAmp([i \in 1..ncols |->
                IF formatters[i] = "fixed2" THEN row[i] \o ".00" ELSE row[i]])
    \o "\\\\\n"

IsRowLine(w) == w # Hline /\ w # EndTabular

\* what tolatex wrote after the \begin line and the header block
DataWrites == SubSeq(written, 2 + HeaderLineCount, Len(written))

\* rows 0..m-1 (as "row"), each followed by "hline" iff its number is in xs
RECURSIVE ExpectedSeparators(_, _, _)
ExpectedSeparators(m, xs, r) ==
    IF r >= m THEN <<>>
    ELSE <<"row">>
         \o (IF \E i \in 1..Len(xs) : xs[i] = r THEN <<"hline">> ELSE <<>>)
         \o ExpectedSeparators(m, xs, r + 1)

\* a sequence of writes as "row" and "hline"
SeparatorPattern(ws) == [i \in 1..Len(ws) |-> IF ws[i] = Hline THEN "hline" ELSE "row"]

\* C7: if a formatter raises on a cell of row k, tolatex ends with that error;
\* it has written the lines of rows 0..k-1 with their separators (one each under
\* "all", none when no separator is configured or under "none", those of a
\* well-formed index list), nothing of row k or of a later row, no
\* \end{tabular}, and it has read no row after row k.
C7_FormatterFailureAborts ==
    (call.op = "tolatex" /\ FirstRaisingRow(call.args.rows) > 0) =>
        LET k == FirstRaisingRow(call.args.rows) IN
        /\ call.raised = "ValueError"
        /\ consumed = k
        /\ SelectSeq(DataWrites, IsRowLine)
             = [j \in 1..(k - 1) |-> ExpectedRowLine(call.args.rows[j])]
        /\ \A i \in 1..Len(written) : written[i] # EndTabular
        /\ ("rlines" \in DOMAIN keys /\ keys.rlines = StrAll)
              => DataWrites = [j \in 1..(2 * (k - 1)) |->
                                 IF j % 2 = 1
                                 THEN ExpectedRowLine(call.args.rows[(j + 1) \div 2])
                                 ELSE Hline]
        /\ ("rlines" \notin DOMAIN keys \/ keys.rlines = StrNone)
              => Len(DataWrites) = k - 1
        /\ ( /\ "rlines" \in DOMAIN keys
             /\ keys.rlines.tag = "list"
             /\ WellFormedRowList(keys.rlines.val) )
              => SeparatorPattern(DataWrites) = ExpectedSeparators(k - 1, keys.rlines.val, 0)

\* C7's case: the second row makes the formatter of the last column raise,
\* after the first row and its separator were written
C7_Witness ==
    /\ call.op = "tolatex"
    /\ call.raised = "ValueError"
    /\ ncols = 2
    /\ formatters = <<"str", "fixed2">>
    /\ call.args.rows = <<DigitRow(2), XRow(2)>>
    /\ consumed = 2
    /\ written = <<"\\begin{tabular}{cc}\n", "1 & 2.00\\\\\n", "\\hline\n">>

HeadersWellFormed ==
    include_headers => (headers.tag = "list" /\ Len(headers.val) = ncols)

\* C8: set_headers with a list whose length differs from ncols raises ValueError
\* and leaves the headers, the header flag and the bold flag as they were; with
\* a list of length ncols it stores the headers, turns header rendering on and
\* records bold; and whenever header rendering is on, the stored header list
\* has ncols entries.
C8_SetHeadersChecksLength ==
    [][ /\ HeadersWellFormed
        /\ HeadersWellFormed'
        /\ call'.op = "set_headers" =>
             IF Len(call'.args.headers) # ncols
             THEN /\ call'.raised = "ValueError"
                  /\ UNCHANGED <<headers, include_headers, keys>>
             ELSE /\ call'.raised = "None"
                  /\ headers' = PyList("str", call'.args.headers)
                  /\ include_headers' = TRUE
                  /\ keys'.bold = call'.args.bold
                  /\ \A x \in (DOMAIN keys) \ {"bold"} :
                        x \in DOMAIN keys' /\ keys'[x] = keys[x]
      ]_vars

\* C8's case: a set_headers call with three headers for two columns fails after
\* an earlier call had set bold headers, which are still there
C8_Witness ==
    /\ call.op = "set_headers"
    /\ call.raised = "ValueError"
    /\ ncols = 2
    /\ Len(call.args.headers) = 3
    /\ include_headers
    /\ headers = PyList("str", <<"B", "A">>)
    /\ "bold" \in DOMAIN keys
    /\ keys.bold

\* C9: with a well-formed index list, tolatex (when no formatter raises) writes
\* a \hline right after the line of row r iff r is in the list, once, and one
\* more \hline after the last row iff the last element of the list is -1.
C9_RowSeparatorsFollowIndexList ==
    ( /\ call.op = "tolatex"
      /\ "rlines" \in DOMAIN keys
      /\ keys.rlines.tag = "list"
      /\ WellFormedRowList(keys.rlines.val)
      /\ FirstRaisingRow(call.args.rows) = 0 )
    => LET xs == keys.rlines.val
           m == Len(call.args.rows)
           data == SelectSeq(DataWrites, LAMBDA w : w # EndTabular)
       IN SeparatorPattern(data)
            = ExpectedSeparators(m, xs, 0)
              \o (IF xs # <<>> /\ xs[Len(xs)] = -1 THEN <<"hline">> ELSE <<>>)

\* C9's case: the list [0, -1] and two rows: a separator after row 0, none
\* after row 1, and the closing one
C9_Witness ==
    /\ call.op = "tolatex"
    /\ call.raised = "None"
    /\ ncols = 2
    /\ ~include_headers
    /\ "rlines" \in DOMAIN keys
    /\ keys.rlines = PyList("int", <<0, -1>>)
    /\ written = <<"\\begin{tabular}{cc}\n", "1 & 2\\\\\n", "\\hline\n",
                   "x & x\\\\\n", "\\hline\n", "\\end{tabular}">>

\* C10: a setter call that raises leaves the table model as it was.
C10_FailedSetterChangesNothing ==
    [][ (call'.op \in Setters /\ call'.raised # "None") => UNCHANGED model ]_vars

====
